---- MODULE Spec2Model ----
(***************************************************************************)
(* Model of internal/controllers/gateway/gateway_utils.go: the Gateway     *)
(* state predicates, getRefFromPublishService, the status condition       *)
(* pruner, the watch helpers and getListenerStatus.                        *)
(*                                                                         *)
(* A Condition is [type, status, reason, observedGeneration]; its message  *)
(* is a constant of the (type, reason) pair and lastTransitionTime is the  *)
(* time of the call, so neither is modelled.  A Listener is                *)
(* [name, protocol, port, hostname] where hostname is <<>> for a nil       *)
(* pointer and <<h>> for a pointer to h.  A ListenerStatus is              *)
(* [name, attachedRoutes, conditions]; supportedKinds is a constant.       *)
(***************************************************************************)
EXTENDS Integers, Sequences, FiniteSets, TLC

VARIABLES gateway, kongListens, op, before, result, stable, args, calls

vars == <<gateway, kongListens, op, before, result, stable, args, calls>>

----------------------------------------------------------------------------
(* Bounds of the model *)

MaxListeners == 2

MaxKongListens == 2

MaxGeneration == 2

MaxRoutes == 1

MaxConditions == 2

MaxAppended == 10

MaxGateways == 3

MaxCallListeners == 2

MaxPublishServiceLen == 4

(* Program constants *)

maxConds == 8

HTTPProtocolType == "HTTP"

HTTPSProtocolType == "HTTPS"

TLSProtocolType == "TLS"

TCPProtocolType == "TCP"

UDPProtocolType == "UDP"

ProtocolTypes == {HTTPProtocolType, HTTPSProtocolType, TLSProtocolType, TCPProtocolType, UDPProtocolType}

----------------------------------------------------------------------------
(* Go map helpers: a map is a function whose DOMAIN is its key set *)

EmptyMap == [k \in {} |-> 0]

HasKey(m, k) == k \in DOMAIN m

Put(m, k, v) == [x \in (DOMAIN m) \cup {k} |-> IF x = k THEN v ELSE m[x]]

\* a condition whose ObservedGeneration is left at its zero value
ConditionUnobserved(type, status, generation, reason) ==
    [type |-> type, status |-> status, reason |-> reason, observedGeneration |-> 0]

Condition(type, status, generation, reason) ==
    [type |-> type, status |-> status, reason |-> reason, observedGeneration |-> generation]

ConditionTrue == "True"

ConditionFalse == "False"

ConditionUnknown == "Unknown"

ListenerConditionConflicted == "Conflicted"

ListenerConditionDetached == "Detached"

ListenerConditionReady == "Ready"

ListenerReasonProtocolConflict == "ProtocolConflict"

ListenerReasonHostnameConflict == "HostnameConflict"

ListenerReasonNoConflicts == "NoConflicts"

ListenerReasonUnsupportedProtocol == "UnsupportedProtocol"

ListenerReasonPortUnavailable == "PortUnavailable"

ListenerReasonReady == "Ready"

ListenerReasonPending == "Pending"

----------------------------------------------------------------------------
(* getListenerStatus *)

\* existingListenerStatuses: the previous statuses by name, a later entry
\* of the same name overwriting an earlier one.
RECURSIVE indexListenerStatuses(_, _)
indexListenerStatuses(statusListeners, m) ==
    IF statusListeners = <<>> THEN m
    ELSE indexListenerStatuses(Tail(statusListeners),
                               Put(m, Head(statusListeners).name, Head(statusListeners)))

\* protocols: for each protocol of the data-plane listens, the set of its ports
\* (the Go inner map holds only true values).
RECURSIVE indexKongListens(_, _)
indexKongListens(listens, m) ==
    IF listens = <<>> THEN m
    ELSE LET listen == Head(listens)
             ports == IF HasKey(m, listen.protocol) THEN m[listen.protocol] ELSE {}
         IN indexKongListens(Tail(listens), Put(m, listen.protocol, ports \cup {listen.port}))

\* len(protocols[p]): a missing key reads as a nil map of length 0
protocolPortCount(protocols, protocol) ==
    IF HasKey(protocols, protocol) THEN Cardinality(protocols[protocol]) ELSE 0

\* _, ok := protocols[p][port]
protocolHasPort(protocols, protocol, port) ==
    HasKey(protocols, protocol) /\ port \in protocols[protocol]

\* a key that takes every listener for one without a hostname
hostnameOfNone(listener) == ""

\* the hostname key of a listener: nil becomes Hostname("")
hostnameOf(listener) ==
    IF listener.hostname = <<>> THEN "" ELSE listener.hostname[1]

hostnamesOfPort(portsToHostnames, port) ==
    IF HasKey(portsToHostnames, port) THEN portsToHostnames[port] ELSE EmptyMap

\* the claim a listener makes for one Conflicted=False condition of its
\* previous status: the port when unclaimed, and for HTTP/HTTPS/TLS the
\* (port, hostname) pair, overwriting whoever held it.
claimExisting(claims, listener) ==
    [portsToProtocol |->
        IF HasKey(claims.portsToProtocol, listener.port)
        THEN claims.portsToProtocol
        ELSE Put(claims.portsToProtocol, listener.port, listener.protocol),
     portsToHostnames |->
        IF listener.protocol \in {HTTPProtocolType, HTTPSProtocolType, TLSProtocolType}
        THEN Put(claims.portsToHostnames, listener.port,
                 Put(hostnamesOfPort(claims.portsToHostnames, listener.port),
                     hostnameOf(listener), listener.name))
        ELSE claims.portsToHostnames]

RECURSIVE seedConditions(_, _, _)
seedConditions(claims, listener, conditions) ==
    IF conditions = <<>> THEN claims
    ELSE seedConditions(
            IF /\ Head(conditions).type = ListenerConditionConflicted
               /\ Head(conditions).status = ConditionFalse
            THEN claimExisting(claims, listener)
            ELSE claims,
            listener, Tail(conditions))

\* the first loop over gateway.Spec.Listeners
RECURSIVE seedListeners(_, _, _)
seedListeners(claims, listeners, existing) ==
    IF listeners = <<>> THEN claims
    ELSE LET listener == Head(listeners)
         IN seedListeners(
                IF HasKey(existing, listener.name)
                THEN seedConditions(claims, listener, existing[listener.name].conditions)
                ELSE claims,
                Tail(listeners), existing)

\* a rule under which no protocol holds its port alone
portIsExclusiveNever(claimed) == FALSE

\* a port claimed by TCP or UDP is shared with nobody
portIsExclusive(claimed) ==
    claimed = TCPProtocolType \/ claimed = UDPProtocolType

\* a sharing rule that lets every protocol join a port
protocolsCompatibleAlways(claimed, protocol) == TRUE

\* all HTTP, or all HTTPS or TLS
protocolsCompatible(claimed, protocol) ==
    \/ claimed = protocol
    \/ protocol = HTTPSProtocolType /\ claimed = TLSProtocolType
    \/ protocol = TLSProtocolType /\ claimed = HTTPSProtocolType

\* the protocol/port and hostname checks of one listener: the claims after
\* it and the Conflicted conditions it raises
checkConflict(claims, listener, generation) ==
    LET p2p == claims.portsToProtocol
        p2h == claims.portsToHostnames
        port == listener.port
        protocolConflict == <<Condition(ListenerConditionConflicted, ConditionTrue,
                                        generation, ListenerReasonProtocolConflict)>>
        hostnameConflict == <<Condition(ListenerConditionConflicted, ConditionTrue,
                                        generation, ListenerReasonHostnameConflict)>>
    IN  IF ~HasKey(p2p, port)
        THEN [portsToProtocol |-> Put(p2p, port, listener.protocol),
              portsToHostnames |-> p2h, conditions |-> <<>>]
        ELSE IF portIsExclusive(p2p[port])
        THEN [portsToProtocol |-> p2p, portsToHostnames |-> p2h,
              conditions |-> protocolConflict]
        ELSE IF protocolsCompatible(p2p[port], listener.protocol)
        THEN LET hostnames == hostnamesOfPort(p2h, port)
                 hostname == hostnameOf(listener)
             IN IF ~HasKey(hostnames, hostname)
                THEN [portsToProtocol |-> p2p,
                      portsToHostnames |-> Put(p2h, port, Put(hostnames, hostname, listener.name)),
                      conditions |-> <<>>]
                ELSE [portsToProtocol |-> p2p,
                      portsToHostnames |-> Put(p2h, port, hostnames),
                      conditions |-> IF hostnames[hostname] # listener.name
                                     THEN hostnameConflict ELSE <<>>]
        ELSE [portsToProtocol |-> p2p, portsToHostnames |-> p2h,
              conditions |-> protocolConflict]

\* the condition of a protocol the data plane does not listen on at all
unsupportedProtocolConditions(listener, protocols, generation) ==
    IF protocolPortCount(protocols, listener.protocol) = 0
    THEN <<Condition(ListenerConditionDetached, ConditionTrue, generation,
                     ListenerReasonUnsupportedProtocol)>>
    ELSE <<>>

\* the condition of a port the data plane does not listen on with the protocol
portUnavailableConditions(listener, protocols, generation) ==
    IF ~protocolHasPort(protocols, listener.protocol, listener.port)
    THEN <<Condition(ListenerConditionDetached, ConditionTrue, generation,
                     ListenerReasonPortUnavailable)>>
    ELSE <<>>

\* data-plane checks that a conflict raised before them cuts short
detachedConditionsUnlessConflicted(conditions, listener, protocols, generation) ==
    IF Len(conditions) > 0
    THEN conditions
    ELSE unsupportedProtocolConditions(listener, protocols, generation)
            \o portUnavailableConditions(listener, protocols, generation)

\* the two data-plane checks, appended to the conditions raised so far
detachedConditions(conditions, listener, protocols, generation) ==
    conditions
        \o unsupportedProtocolConditions(listener, protocols, generation)
        \o portUnavailableConditions(listener, protocols, generation)

\* a closing branch that looks at conflicts only
readyConditionsIgnoringDetached(conditions, generation) ==
    IF \A k \in DOMAIN conditions : conditions[k].type # ListenerConditionConflicted
    THEN conditions \o
         <<Condition(ListenerConditionConflicted, ConditionFalse, generation,
                     ListenerReasonNoConflicts),
           Condition(ListenerConditionReady, ConditionTrue, generation,
                     ListenerReasonReady)>>
    ELSE Append(conditions,
                Condition(ListenerConditionReady, ConditionFalse, generation,
                          ListenerReasonPending))

\* the closing branch: no condition so far means good to go
readyConditions(conditions, generation) ==
    IF Len(conditions) = 0
    THEN <<Condition(ListenerConditionConflicted, ConditionFalse, generation,
                     ListenerReasonNoConflicts),
           Condition(ListenerConditionReady, ConditionTrue, generation,
                     ListenerReasonReady)>>
    ELSE Append(conditions,
                Condition(ListenerConditionReady, ConditionFalse, generation,
                          ListenerReasonPending))

\* a status that starts every listener at no attached route
attachedRoutesOfNone(existing, listener) == 0

\* AttachedRoutes of the previous status of the name, the zero value without one
attachedRoutesOf(existing, listener) ==
    IF HasKey(existing, listener.name) THEN existing[listener.name].attachedRoutes ELSE 0

\* the second loop over gateway.Spec.Listeners
RECURSIVE evalListeners(_, _, _, _, _, _)
evalListeners(claims, statuses, listeners, existing, protocols, generation) ==
    IF listeners = <<>> THEN statuses
    ELSE LET listener == Head(listeners)
             checked == checkConflict(claims, listener, generation)
             status == [name |-> listener.name,
                        attachedRoutes |-> attachedRoutesOf(existing, listener),
                        conditions |->
                            readyConditions(
                                detachedConditions(checked.conditions, listener,
                                                   protocols, generation),
                                generation)]
         IN evalListeners([portsToProtocol |-> checked.portsToProtocol,
                           portsToHostnames |-> checked.portsToHostnames],
                          Append(statuses, status),
                          Tail(listeners), existing, protocols, generation)

getListenerStatus(gw, listens) ==
    LET existing == indexListenerStatuses(gw.status.listeners, EmptyMap)
        protocols == indexKongListens(listens, EmptyMap)
        seeded == seedListeners([portsToProtocol |-> EmptyMap, portsToHostnames |-> EmptyMap],
                                gw.spec.listeners, existing)
    IN evalListeners(seeded, <<>>, gw.spec.listeners, existing, protocols, gw.generation)

----------------------------------------------------------------------------
(* The Gateway state predicates and the pruner *)

GatewayConditionReady == "Ready"

GatewayReasonReady == "Ready"

GatewayConditionScheduled == "Scheduled"

GatewayReasonScheduled == "Scheduled"

\* the loop over gateway.Status.Conditions, returning at the first match
RECURSIVE scheduledIn(_)
scheduledIn(conditions) ==
    IF conditions = <<>> THEN FALSE
    ELSE IF /\ Head(conditions).type = GatewayConditionScheduled
            /\ Head(conditions).reason = GatewayReasonScheduled
            /\ Head(conditions).status = ConditionTrue
    THEN TRUE
    ELSE scheduledIn(Tail(conditions))

\* a predicate that also asks for the Gateway's generation, as isGatewayReady does
isGatewayScheduledCurrent(gw) ==
    \E i \in DOMAIN gw.status.conditions :
        /\ gw.status.conditions[i].type = GatewayConditionScheduled
        /\ gw.status.conditions[i].reason = GatewayReasonScheduled
        /\ gw.status.conditions[i].status = ConditionTrue
        /\ gw.status.conditions[i].observedGeneration = gw.generation

isGatewayScheduled(gw) == scheduledIn(gw.status.conditions)

isGatewayReady(gw) ==
    \E i \in DOMAIN gw.status.conditions :
        /\ gw.status.conditions[i].type = GatewayConditionReady
        /\ gw.status.conditions[i].reason = GatewayReasonReady
        /\ gw.status.conditions[i].observedGeneration = gw.generation

\* a pruner that keeps the oldest conditions
pruneGatewayStatusCondsOldest(gw) ==
    IF Len(gw.status.conditions) > maxConds
    THEN [gw EXCEPT !.status.conditions = SubSeq(gw.status.conditions, 1, maxConds)]
    ELSE gw

pruneGatewayStatusConds(gw) ==
    IF Len(gw.status.conditions) > maxConds
    THEN [gw EXCEPT !.status.conditions =
            SubSeq(gw.status.conditions,
                   Len(gw.status.conditions) - maxConds + 1,
                   Len(gw.status.conditions))]
    ELSE gw

----------------------------------------------------------------------------
(* The watch helpers: the fan-out of a GatewayClass and the event predicate *)

\* the identity of this controller, a constant of the package
ControllerName == "konghq.com/kic-gateway-controller"

\* reconcile.Request{NamespacedName{Namespace, Name}}
Request(gw) == [namespace |-> gw.namespace, name |-> gw.name]

\* the loop over gateways, appending to recs
RECURSIVE appendRequests(_, _, _)
appendRequests(recs, gatewayClass, gateways) ==
    IF gateways = <<>> THEN recs
    ELSE appendRequests(
            IF Head(gateways).spec.gatewayClassName = gatewayClass.name
            THEN Append(recs, Request(Head(gateways)))
            ELSE recs,
            gatewayClass, Tail(gateways))

\* a fan-out that requests every Gateway of the list
reconcileEveryGateway(gatewayClass, gateways) ==
    [i \in DOMAIN gateways |-> Request(gateways[i])]

reconcileGatewaysIfClassMatches(gatewayClass, gateways) ==
    appendRequests(<<>>, gatewayClass, gateways)

CreateEvent == "event.CreateEvent"

DeleteEvent == "event.DeleteEvent"

GenericEvent == "event.GenericEvent"

UpdateEvent == "event.UpdateEvent"

InvalidEventType == "received invalid event type in event handlers"

InvalidObjectType == "received invalid object type in event handlers"

\* a type switch that looks at the new object of an update only
eventObjectsNewOnly(watchEvent) ==
    IF watchEvent.type \in {CreateEvent, DeleteEvent, GenericEvent}
    THEN [ok |-> TRUE, objs |-> <<watchEvent.Object>>]
    ELSE IF watchEvent.type = UpdateEvent
    THEN [ok |-> TRUE, objs |-> <<watchEvent.ObjectNew>>]
    ELSE [ok |-> FALSE, objs |-> <<>>]

\* the type switch: the objects of the event, or not ok for any other type
eventObjects(watchEvent) ==
    IF watchEvent.type \in {CreateEvent, DeleteEvent, GenericEvent}
    THEN [ok |-> TRUE, objs |-> <<watchEvent.Object>>]
    ELSE IF watchEvent.type = UpdateEvent
    THEN [ok |-> TRUE, objs |-> <<watchEvent.ObjectOld, watchEvent.ObjectNew>>]
    ELSE [ok |-> FALSE, objs |-> <<>>]

\* the loop over objs: what is returned and the log after it
RECURSIVE objectsInClass(_, _)
objectsInClass(log, objs) ==
    IF objs = <<>> THEN [value |-> FALSE, log |-> log]
    ELSE IF Head(objs).type # "GatewayClass"
    THEN objectsInClass(Append(log, InvalidObjectType), Tail(objs))
    ELSE IF Head(objs).controllerName = ControllerName
    THEN [value |-> TRUE, log |-> log]
    ELSE objectsInClass(log, Tail(objs))

isGatewayClassEventInClass(log, watchEvent) ==
    LET switched == eventObjects(watchEvent)
    IN  IF ~switched.ok
        THEN [value |-> FALSE, log |-> Append(log, InvalidEventType)]
        ELSE objectsInClass(log, switched.objs)

----------------------------------------------------------------------------
(* getRefFromPublishService.  A string is the sequence of its characters. *)

\* strings.Index(s, sep) for a separator of one character: the position of
\* its first occurrence, 0 when there is none
RECURSIVE indexOf(_, _)
indexOf(s, sep) ==
    IF s = <<>> THEN 0
    ELSE IF Head(s) = sep THEN 1
    ELSE LET rest == indexOf(Tail(s), sep)
         IN IF rest = 0 THEN 0 ELSE rest + 1

\* strings.SplitN(s, sep, n) for n > 0: s is cut at its first n-1
\* separators and the last substring is the unsplit remainder
RECURSIVE SplitN(_, _, _)
SplitN(s, sep, n) ==
    IF n = 1 \/ indexOf(s, sep) = 0 THEN <<s>>
    ELSE <<SubSeq(s, 1, indexOf(s, sep) - 1)>>
            \o SplitN(SubSeq(s, indexOf(s, sep) + 1, Len(s)), sep, n - 1)

\* types.NamespacedName{}
EmptyNamespacedName == [namespace |-> <<>>, name |-> <<>>]

getRefFromPublishService(publishService) ==
    LET publishServiceSplit == SplitN(publishService, "/", 3)
    IN  IF Len(publishServiceSplit) # 2
        THEN [ref |-> EmptyNamespacedName, err |-> TRUE]
        ELSE [ref |-> [namespace |-> publishServiceSplit[1],
                       name |-> publishServiceSplit[2]],
              err |-> FALSE]

----------------------------------------------------------------------------
(* The inputs of the model *)

SeqsUpTo(S, n) == UNION {[1..k -> S] : k \in 0..n}

ListenerNames == {"a", "b"}

Ports == {80, 443}

Hostnames == {<<>>, <<"a.com">>}

Listeners ==
    [name : ListenerNames, protocol : ProtocolTypes, port : Ports, hostname : Hostnames]

\* The code compares listener names only for equality, so of the spec
\* listener sequences that differ by a renaming one is kept: the first
\* listener is named "a".  Previous statuses are drawn for every name.
SpecListeners ==
    {ls \in SeqsUpTo(Listeners, MaxListeners) : ls # <<>> => ls[1].name = "a"}

\* the data plane: plain HTTP on 80, HTTPS on 443, a TCP stream listen on 80
KongListenDomain ==
    { [protocol |-> HTTPProtocolType, port |-> 80],
      [protocol |-> HTTPSProtocolType, port |-> 443],
      [protocol |-> TCPProtocolType, port |-> 80] }

\* what an earlier reconciliation, at generation 1, can have left for a listener
PreviousConditions ==
    { <<Condition(ListenerConditionConflicted, ConditionFalse, 1, ListenerReasonNoConflicts),
        Condition(ListenerConditionReady, ConditionTrue, 1, ListenerReasonReady)>>,
      <<Condition(ListenerConditionConflicted, ConditionTrue, 1, ListenerReasonHostnameConflict),
        Condition(ListenerConditionReady, ConditionFalse, 1, ListenerReasonPending)>> }

\* previous statuses: at most one entry per listener name, none included
PreviousStatuses ==
    {ss \in SeqsUpTo([name : ListenerNames, attachedRoutes : {MaxRoutes},
                      conditions : PreviousConditions], MaxListeners) :
        \A i, j \in DOMAIN ss : i < j => ss[i].name # ss[j].name}

GatewayConditions ==
    [type : {GatewayConditionReady, GatewayConditionScheduled},
     status : {ConditionTrue, ConditionFalse, ConditionUnknown},
     reason : {GatewayReasonReady, GatewayReasonScheduled},
     observedGeneration : 1..MaxGeneration]

\* the conditions a Gateway accumulates before it is pruned
AppendedConditions ==
    { Condition(GatewayConditionScheduled, ConditionTrue, 1, GatewayReasonScheduled),
      Condition(GatewayConditionReady, ConditionTrue, 1, GatewayReasonReady) }

Outcome(statuses) ==
    [i \in DOMAIN statuses |->
        [name |-> statuses[i].name,
         conditions |-> [j \in DOMAIN statuses[i].conditions |->
                            <<statuses[i].conditions[j].type,
                              statuses[i].conditions[j].status,
                              statuses[i].conditions[j].reason>>]]]

----------------------------------------------------------------------------
(* Spec: reconciliations of one Gateway's listener statuses *)

Init ==
    /\ gateway \in [generation : {MaxGeneration},
                    spec : [listeners : SpecListeners],
                    status : [listeners : PreviousStatuses, conditions : {<<>>}]]
    /\ kongListens \in SeqsUpTo(KongListenDomain, MaxKongListens)
    /\ op = "init"
    /\ before = gateway
    /\ result = <<>>
    /\ stable = FALSE
    /\ args = <<>>
    /\ calls = <<>>

\* one call of getListenerStatus: it only returns
CallGetListenerStatus ==
    /\ op \in {"init", "update"}
    /\ result' = getListenerStatus(gateway, kongListens)
    /\ stable' = (op = "update" /\ Outcome(result') = Outcome(result))
    /\ before' = gateway
    /\ op' = "getListenerStatus"
    /\ UNCHANGED <<gateway, kongListens, args, calls>>

\* the reconciler stores the result as the Gateway's listener statuses
UpdateStatus ==
    /\ op = "getListenerStatus"
    /\ gateway' = [gateway EXCEPT !.status.listeners = result]
    /\ op' = "update"
    /\ UNCHANGED <<kongListens, before, result, stable, args, calls>>

Next == CallGetListenerStatus \/ UpdateStatus

Spec == Init /\ [][Next]_vars

\* Gateways of at most one listener, reconciled for ever: the reconciler is
\* re-invoked continuously, so a call or an update that stays possible happens.
InitSingle == Init /\ Len(gateway.spec.listeners) <= 1

SingleSpec ==
    InitSingle /\ [][Next]_vars /\ WF_vars(CallGetListenerStatus) /\ WF_vars(UpdateStatus)

----------------------------------------------------------------------------
(* SpecGateway: the predicates and the pruner on a Gateway's conditions *)

InitGateway ==
    /\ gateway \in [generation : 1..MaxGeneration,
                    spec : [listeners : {<<>>}],
                    status : [listeners : {<<>>},
                              conditions : SeqsUpTo(GatewayConditions, MaxConditions)
                                           \cup SeqsUpTo(AppendedConditions, MaxAppended)]]
    /\ kongListens = <<>>
    /\ op = "init"
    /\ before = gateway
    /\ result = FALSE
    /\ stable = FALSE
    /\ args = <<>>
    /\ calls = <<>>

CallIsGatewayReady ==
    /\ result' = isGatewayReady(gateway)
    /\ before' = gateway
    /\ op' = "isGatewayReady"
    /\ UNCHANGED <<gateway, kongListens, stable, args, calls>>

\* prunes the Gateway in place and returns it
CallPruneGatewayStatusConds ==
    /\ gateway' = pruneGatewayStatusConds(gateway)
    /\ before' = gateway
    /\ result' = FALSE
    /\ op' = "pruneGatewayStatusConds"
    /\ UNCHANGED <<kongListens, stable, args, calls>>

CallIsGatewayScheduled ==
    /\ result' = isGatewayScheduled(gateway)
    /\ before' = gateway
    /\ op' = "isGatewayScheduled"
    /\ UNCHANGED <<gateway, kongListens, stable, args, calls>>

NextGateway == CallIsGatewayReady \/ CallPruneGatewayStatusConds \/ CallIsGatewayScheduled

SpecGateway == InitGateway /\ [][NextGateway]_vars

----------------------------------------------------------------------------
(* SpecWatch: the fan-out of a GatewayClass and the event predicate *)

ClassNames == {"kong", "other"}

Namespaces == {"default", "ns"}

GatewayNames == {"g1", "g2"}

\* the Gateways of a list: no two of one namespace and name
GatewayLists ==
    {gws \in SeqsUpTo([namespace : Namespaces, name : GatewayNames,
                       spec : [gatewayClassName : ClassNames]], MaxGateways) :
        \A i, j \in DOMAIN gws : i < j => Request(gws[i]) # Request(gws[j])}

\* the objects of an event: a GatewayClass of this or of another controller,
\* an object of another type, the nil interface
EventObjects ==
    { [type |-> "GatewayClass", controllerName |-> ControllerName],
      [type |-> "GatewayClass", controllerName |-> "example.com/controller"],
      [type |-> "Gateway", controllerName |-> ""],
      [type |-> "nil", controllerName |-> ""] }

\* the four event types of controller-runtime and a value of another type
WatchEvents ==
    [type : {CreateEvent, DeleteEvent, GenericEvent}, Object : EventObjects]
        \cup [type : {UpdateEvent}, ObjectOld : EventObjects, ObjectNew : EventObjects]
        \cup [type : {"string"}]

InitWatch ==
    /\ gateway = [generation |-> 1, spec |-> [listeners |-> <<>>],
                  status |-> [listeners |-> <<>>, conditions |-> <<>>]]
    /\ kongListens = <<>>
    /\ op = "init"
    /\ before = gateway
    /\ result = <<>>
    /\ stable = FALSE
    /\ args = <<>>
    /\ calls = <<>>

CallReconcileGatewaysIfClassMatches ==
    \E name \in ClassNames, gateways \in GatewayLists :
        /\ args' = [gatewayClass |-> [name |-> name], gateways |-> gateways]
        /\ result' = reconcileGatewaysIfClassMatches(args'.gatewayClass, args'.gateways)
        /\ op' = "reconcileGatewaysIfClassMatches"
        /\ UNCHANGED <<gateway, kongListens, before, stable, calls>>

CallIsGatewayClassEventInClass ==
    \E watchEvent \in WatchEvents :
        /\ args' = [watchEvent |-> watchEvent]
        /\ result' = isGatewayClassEventInClass(<<>>, watchEvent)
        /\ op' = "isGatewayClassEventInClass"
        /\ UNCHANGED <<gateway, kongListens, before, stable, calls>>

NextWatch == CallReconcileGatewaysIfClassMatches \/ CallIsGatewayClassEventInClass

SpecWatch == InitWatch /\ [][NextWatch]_vars

----------------------------------------------------------------------------
(* SpecCalls: two calls of getListenerStatus, for two Gateways, that run  *)
(* concurrently.  A call advances by one iteration of one of its loops;   *)
(* its maps and its statuses are the locals of the invocation.            *)

CallIds == {1, 2}

NoClaims == [portsToProtocol |-> EmptyMap, portsToHostnames |-> EmptyMap]

\* maps kept in package variables, which every call finds as the first left them
claimsOfPackage(cs, c) == cs[1].claims

\* portsToProtocol and portsToHostnames, made anew by each invocation
claimsOf(cs, c) == cs[c].claims

CallListeners ==
    {ls \in SeqsUpTo([name : ListenerNames,
                      protocol : {HTTPProtocolType, TCPProtocolType},
                      port : {80}, hostname : {<<>>}], MaxCallListeners) :
        ls # <<>> => ls[1].name = "a"}

\* no previous status, or listener a left without a conflict
CallStatuses ==
    { <<>>,
      <<[name |-> "a", attachedRoutes |-> MaxRoutes,
         conditions |-> <<Condition(ListenerConditionConflicted, ConditionFalse, 1,
                                    ListenerReasonNoConflicts),
                          Condition(ListenerConditionReady, ConditionTrue, 1,
                                    ListenerReasonReady)>>]>> }

CallInputs ==
    [gateway : [generation : {MaxGeneration},
                spec : [listeners : CallListeners],
                status : [listeners : CallStatuses, conditions : {<<>>}]],
     kongListens : {<<>>, <<[protocol |-> HTTPProtocolType, port |-> 80]>>}]

InitCalls ==
    /\ before \in [CallIds -> CallInputs]
    /\ calls = [c \in CallIds |->
                    [gateway |-> before[c].gateway, kongListens |-> before[c].kongListens,
                     pc |-> "start", i |-> 0,
                     existing |-> EmptyMap, protocols |-> EmptyMap,
                     claims |-> NoClaims, statuses |-> <<>>]]
    /\ gateway = [generation |-> 1, spec |-> [listeners |-> <<>>],
                  status |-> [listeners |-> <<>>, conditions |-> <<>>]]
    /\ kongListens = <<>>
    /\ op = "init"
    /\ result = <<>>
    /\ stable = FALSE
    /\ args = <<>>

\* the statuses slice, the two index maps and the two claim maps are made
StartCall(c) ==
    /\ calls[c].pc = "start"
    /\ calls' = [calls EXCEPT
            ![c].existing = indexListenerStatuses(calls[c].gateway.status.listeners, EmptyMap),
            ![c].protocols = indexKongListens(calls[c].kongListens, EmptyMap),
            ![c].claims = NoClaims,
            ![c].statuses = <<>>,
            ![c].i = 1,
            ![c].pc = IF calls[c].gateway.spec.listeners = <<>> THEN "done" ELSE "seed"]
    /\ UNCHANGED <<gateway, kongListens, op, before, result, stable, args>>

\* one iteration of the first loop over gateway.Spec.Listeners
SeedListener(c) ==
    /\ calls[c].pc = "seed"
    /\ LET call == calls[c]
           listener == call.gateway.spec.listeners[call.i]
           last == call.i = Len(call.gateway.spec.listeners)
       IN calls' = [calls EXCEPT
               ![c].claims = seedListeners(claimsOf(calls, c), <<listener>>, call.existing),
               ![c].i = IF last THEN 1 ELSE call.i + 1,
               ![c].pc = IF last THEN "eval" ELSE "seed"]
    /\ UNCHANGED <<gateway, kongListens, op, before, result, stable, args>>

\* one iteration of the second loop; after the last one statuses is returned
EvalListener(c) ==
    /\ calls[c].pc = "eval"
    /\ LET call == calls[c]
           listener == call.gateway.spec.listeners[call.i]
           last == call.i = Len(call.gateway.spec.listeners)
           claims == claimsOf(calls, c)
           checked == checkConflict(claims, listener, call.gateway.generation)
       IN calls' = [calls EXCEPT
               ![c].statuses = evalListeners(claims, call.statuses, <<listener>>,
                                             call.existing, call.protocols,
                                             call.gateway.generation),
               ![c].claims = [portsToProtocol |-> checked.portsToProtocol,
                              portsToHostnames |-> checked.portsToHostnames],
               ![c].i = IF last THEN call.i ELSE call.i + 1,
               ![c].pc = IF last THEN "done" ELSE "eval"]
    /\ UNCHANGED <<gateway, kongListens, op, before, result, stable, args>>

NextCalls == \E c \in CallIds : StartCall(c) \/ SeedListener(c) \/ EvalListener(c)

SpecCalls == InitCalls /\ [][NextCalls]_vars

----------------------------------------------------------------------------
(* SpecPublishService: getRefFromPublishService on the --publish-service flag *)

Characters == {"a", "b", "/"}

PublishServices == SeqsUpTo(Characters, MaxPublishServiceLen)

InitPublishService ==
    /\ gateway = [generation |-> 1, spec |-> [listeners |-> <<>>],
                  status |-> [listeners |-> <<>>, conditions |-> <<>>]]
    /\ kongListens = <<>>
    /\ op = "init"
    /\ before = gateway
    /\ result = <<>>
    /\ stable = FALSE
    /\ args = <<>>
    /\ calls = <<>>

CallGetRefFromPublishService ==
    \E publishService \in PublishServices :
        /\ args' = [publishService |-> publishService]
        /\ result' = getRefFromPublishService(publishService)
        /\ op' = "getRefFromPublishService"
        /\ UNCHANGED <<gateway, kongListens, before, stable, calls>>

NextPublishService == CallGetRefFromPublishService

SpecPublishService == InitPublishService /\ [][NextPublishService]_vars

----------------------------------------------------------------------------
(* Vocabulary of the properties *)

Returned == op = "getListenerStatus"

HasCondition(conditions, type, status) ==
    \E k \in DOMAIN conditions :
        conditions[k].type = type /\ conditions[k].status = status

HasConditionFor(conditions, type, status, reason) ==
    \E k \in DOMAIN conditions :
        /\ conditions[k].type = type
        /\ conditions[k].status = status
        /\ conditions[k].reason = reason

IsConflicted(status) ==
    HasCondition(status.conditions, ListenerConditionConflicted, ConditionTrue)

\* the previous status of the listener name carries Conflicted=False
PreviouslyUnconflicted(name) ==
    \E k \in DOMAIN gateway.status.listeners :
        /\ gateway.status.listeners[k].name = name
        /\ \A m \in DOMAIN gateway.status.listeners :
              gateway.status.listeners[m].name = name => m <= k
        /\ HasCondition(gateway.status.listeners[k].conditions,
                        ListenerConditionConflicted, ConditionFalse)

SpecListener(i) == gateway.spec.listeners[i]

ListenerPairs ==
    {p \in (DOMAIN gateway.spec.listeners) \X (DOMAIN gateway.spec.listeners) : p[1] # p[2]}

\* pairs of listeners of different names, as the API server admits them
NamedPairs ==
    {p \in ListenerPairs : SpecListener(p[1]).name # SpecListener(p[2]).name}

\* the data plane has no listen of the protocol
NoListenOf(protocol) ==
    \A k \in DOMAIN kongListens : kongListens[k].protocol # protocol

----------------------------------------------------------------------------
(* C1 *)

\* C1: with the Gateway's spec and the data-plane listens fixed and every
\* result stored before the next call, from some run on every run returns
\* the outcomes of the run before it.
C1_NoFlapping == <>[]stable

----------------------------------------------------------------------------
(* C2 *)

\* C2: of two listeners on one port with the same hostname, the one whose
\* previous status carries Conflicted=False is returned without
\* Conflicted=True and the other with Conflicted=True, in either spec order.
C2_PrecedenceStability ==
    Returned =>
        \A p \in NamedPairs :
            LET A == SpecListener(p[1])
                B == SpecListener(p[2])
            IN  ( /\ A.port = B.port
                  /\ A.hostname = B.hostname
                  /\ PreviouslyUnconflicted(A.name)
                  /\ ~PreviouslyUnconflicted(B.name) )
                => /\ ~IsConflicted(result[p[1]])
                   /\ IsConflicted(result[p[2]])

----------------------------------------------------------------------------
(* C3 *)

\* C3: two HTTPS listeners on one port that both specify the same hostname
\* conflict: at least one of them is returned with Conflicted=True, reason
\* HostnameConflict, whatever the previous status.
C3_HostnameUniqueness ==
    Returned =>
        \A p \in NamedPairs :
            LET A == SpecListener(p[1])
                B == SpecListener(p[2])
            IN  ( /\ A.protocol = HTTPSProtocolType
                  /\ B.protocol = HTTPSProtocolType
                  /\ A.port = B.port
                  /\ A.hostname # <<>>
                  /\ A.hostname = B.hostname )
                => \E i \in {p[1], p[2]} :
                      HasConditionFor(result[i].conditions, ListenerConditionConflicted,
                                      ConditionTrue, ListenerReasonHostnameConflict)

----------------------------------------------------------------------------
(* C4 *)

TcpHttpPairs(pairs) ==
    {p \in pairs :
        /\ SpecListener(p[1]).protocol = TCPProtocolType
        /\ SpecListener(p[2]).protocol = HTTPProtocolType
        /\ SpecListener(p[1]).port = SpecListener(p[2]).port}

ProtocolConflicted(status) ==
    HasConditionFor(status.conditions, ListenerConditionConflicted,
                    ConditionTrue, ListenerReasonProtocolConflict)

\* C4 as stated: a TCP listener and an HTTP listener that share a port are
\* both returned with Conflicted=True, reason ProtocolConflict.
C4_BothProtocolConflicted ==
    Returned =>
        \A p \in TcpHttpPairs(NamedPairs) :
            ProtocolConflicted(result[p[1]]) /\ ProtocolConflicted(result[p[2]])

\* C4: a TCP listener and an HTTP listener that share a port are never both
\* free of conflict: at least one of them is returned with Conflicted=True,
\* reason ProtocolConflict, whichever comes first in spec.listeners.
C4_OneProtocolConflicted ==
    Returned =>
        \A p \in TcpHttpPairs(ListenerPairs) :
            ProtocolConflicted(result[p[1]]) \/ ProtocolConflicted(result[p[2]])

\* a TCP and an HTTP listener share a port, in each order, and the one that
\* holds the port is returned without a conflict
C4_Witness ==
    /\ Returned
    /\ \E p \in TcpHttpPairs(NamedPairs) :
          /\ p[1] < p[2]
          /\ ~IsConflicted(result[p[1]])
          /\ ProtocolConflicted(result[p[2]])

----------------------------------------------------------------------------
(* C5 *)

\* C5: every returned ListenerStatus holds at most one condition of each type.
C5_OneConditionPerType ==
    Returned =>
        \A i \in DOMAIN result :
            \A k, m \in DOMAIN result[i].conditions :
                result[i].conditions[k].type = result[i].conditions[m].type => k = m

----------------------------------------------------------------------------
(* C6 *)

\* C6: isGatewayReady returns true if and only if some top-level condition
\* has type Ready, reason Ready, status True and the Gateway's generation.
C6_ReadyIffCurrentTrue ==
    op = "isGatewayReady" =>
        ( result <=>
            \E i \in DOMAIN gateway.status.conditions :
                /\ gateway.status.conditions[i].type = GatewayConditionReady
                /\ gateway.status.conditions[i].reason = GatewayReasonReady
                /\ gateway.status.conditions[i].status = ConditionTrue
                /\ gateway.status.conditions[i].observedGeneration = gateway.generation )

----------------------------------------------------------------------------
(* C7 *)

ReadyIndexes(conditions) ==
    {k \in DOMAIN conditions : conditions[k].type = ListenerConditionReady}

Unhindered(conditions) ==
    /\ ~HasCondition(conditions, ListenerConditionConflicted, ConditionTrue)
    /\ ~HasCondition(conditions, ListenerConditionDetached, ConditionTrue)

\* C7: every returned ListenerStatus has exactly one Ready condition, the
\* last of its conditions; it is Ready=True, reason Ready, exactly when the
\* listener has no Conflicted=True and no Detached=True condition, and
\* Ready=False, reason Pending, otherwise.
C7_Readiness ==
    Returned =>
        \A i \in DOMAIN result :
            LET conditions == result[i].conditions
                ready == conditions[Len(conditions)]
            IN  /\ ReadyIndexes(conditions) = {Len(conditions)}
                /\ Unhindered(conditions) =>
                      ready.status = ConditionTrue /\ ready.reason = ListenerReasonReady
                /\ ~Unhindered(conditions) =>
                      ready.status = ConditionFalse /\ ready.reason = ListenerReasonPending

\* one listener returned ready, another conflicted, detached and not ready
C7_Witness ==
    /\ Returned
    /\ \E i, j \in DOMAIN result :
          /\ Unhindered(result[i].conditions)
          /\ HasCondition(result[i].conditions, ListenerConditionReady, ConditionTrue)
          /\ IsConflicted(result[j])
          /\ HasCondition(result[j].conditions, ListenerConditionDetached, ConditionTrue)
          /\ HasCondition(result[j].conditions, ListenerConditionReady, ConditionFalse)

----------------------------------------------------------------------------
(* C8 *)

ConflictsOf(conditions) ==
    SelectSeq(conditions, LAMBDA c : c.type = ListenerConditionConflicted
                                     /\ c.status = ConditionTrue)

\* C8: a listener whose protocol has no data-plane listen is returned with
\* Detached=True, reason UnsupportedProtocol, conflicted or not, and the
\* conflicts returned are those returned when no listener is attached at all.
C8_DetachmentIndependence ==
    Returned =>
        \A i \in DOMAIN result :
            /\ NoListenOf(SpecListener(i).protocol) =>
                  HasConditionFor(result[i].conditions, ListenerConditionDetached,
                                  ConditionTrue, ListenerReasonUnsupportedProtocol)
            /\ ConflictsOf(result[i].conditions)
                  = ConflictsOf(getListenerStatus(gateway, <<>>)[i].conditions)

\* the data plane listens, but not on the protocol of a listener that is
\* returned conflicted and detached, beside a listener that is attached
C8_Witness ==
    /\ Returned
    /\ kongListens # <<>>
    /\ \E i, j \in DOMAIN result :
          /\ NoListenOf(SpecListener(i).protocol)
          /\ IsConflicted(result[i])
          /\ HasConditionFor(result[i].conditions, ListenerConditionDetached,
                             ConditionTrue, ListenerReasonUnsupportedProtocol)
          /\ ~HasCondition(result[j].conditions, ListenerConditionDetached, ConditionTrue)

----------------------------------------------------------------------------
(* C10 *)

\* C10: pruneGatewayStatusConds leaves exactly the last min(n, 8) of the n
\* conditions, in their original order, and pruning the result again
\* changes nothing.
C10_PruneKeepsLast ==
    op = "pruneGatewayStatusConds" =>
        LET old == before.status.conditions
            new == gateway.status.conditions
            kept == IF Len(old) < maxConds THEN Len(old) ELSE maxConds
        IN  /\ Len(new) = kept
            /\ \A i \in 1..kept : new[i] = old[Len(old) - kept + i]
            /\ pruneGatewayStatusConds(gateway) = gateway

\* a Gateway of more than 8 conditions was pruned, and its first and last
\* conditions differed
C10_Witness ==
    /\ op = "pruneGatewayStatusConds"
    /\ Len(before.status.conditions) > maxConds
    /\ before.status.conditions[1] # before.status.conditions[Len(before.status.conditions)]
    /\ Len(gateway.status.conditions) = maxConds

----------------------------------------------------------------------------
(* C11 *)

\* C11: every listener returned without a protocol, port or hostname
\* conflict carries Conflicted=False, reason NoConflicts, also when it is
\* returned Detached.
C11_NoConflictsRecorded ==
    Returned =>
        \A i \in DOMAIN result :
            ~IsConflicted(result[i]) =>
                HasConditionFor(result[i].conditions, ListenerConditionConflicted,
                                ConditionFalse, ListenerReasonNoConflicts)

----------------------------------------------------------------------------
(* C12 *)

SharingProtocols(A, B) ==
    \/ A.protocol = HTTPProtocolType /\ B.protocol = HTTPProtocolType
    \/ /\ A.protocol \in {HTTPSProtocolType, TLSProtocolType}
       /\ B.protocol \in {HTTPSProtocolType, TLSProtocolType}

\* C12: whatever the previous status, two distinct listeners on one port
\* that are both returned without Conflicted=True are both HTTP or both in
\* {HTTPS, TLS}; so a TCP or UDP listener never shares its port with another
\* listener returned without Conflicted=True.
C12_PortSharing ==
    Returned =>
        \A p \in ListenerPairs :
            ( /\ SpecListener(p[1]).port = SpecListener(p[2]).port
              /\ ~IsConflicted(result[p[1]])
              /\ ~IsConflicted(result[p[2]]) )
            => SharingProtocols(SpecListener(p[1]), SpecListener(p[2]))

\* an HTTPS and a TLS listener of different hostnames share a port without
\* a conflict, both with a previous status
C12_Witness ==
    /\ Returned
    /\ \E p \in NamedPairs :
          /\ SpecListener(p[1]).port = SpecListener(p[2]).port
          /\ SpecListener(p[1]).protocol = HTTPSProtocolType
          /\ SpecListener(p[2]).protocol = TLSProtocolType
          /\ PreviouslyUnconflicted(SpecListener(p[1]).name)
          /\ PreviouslyUnconflicted(SpecListener(p[2]).name)
          /\ ~IsConflicted(result[p[1]])
          /\ ~IsConflicted(result[p[2]])

----------------------------------------------------------------------------
(* C13 *)

ScheduledIndexes ==
    {i \in DOMAIN gateway.status.conditions :
        /\ gateway.status.conditions[i].type = GatewayConditionScheduled
        /\ gateway.status.conditions[i].reason = GatewayReasonScheduled
        /\ gateway.status.conditions[i].status = ConditionTrue}

\* C13: isGatewayScheduled returns true if and only if some top-level
\* condition has type Scheduled, reason Scheduled and status True, at any
\* position and whatever its observedGeneration and the Gateway's generation.
C13_ScheduledIffConditionTrue ==
    op = "isGatewayScheduled" => (result <=> ScheduledIndexes # {})

\* true was returned for a Gateway whose only Scheduled condition is not the
\* first of the list and was observed at another generation
C13_Witness ==
    /\ op = "isGatewayScheduled"
    /\ result = TRUE
    /\ \E i \in ScheduledIndexes :
          /\ ScheduledIndexes = {i}
          /\ i > 1
          /\ gateway.status.conditions[i].observedGeneration # gateway.generation

----------------------------------------------------------------------------
(* C14 *)

MatchingIndexes ==
    {i \in DOMAIN args.gateways :
        args.gateways[i].spec.gatewayClassName = args.gatewayClass.name}

\* C14: reconcileGatewaysIfClassMatches returns one request (namespace, name)
\* for exactly the Gateways of the list whose gatewayClassName is the name of
\* the GatewayClass, in the order of the list, none duplicated, none dropped.
C14_RequestsOfMatchingGateways ==
    op = "reconcileGatewaysIfClassMatches" =>
        /\ Len(result) = Cardinality(MatchingIndexes)
        /\ \A i \in MatchingIndexes :
              result[Cardinality({j \in MatchingIndexes : j <= i})]
                  = [namespace |-> args.gateways[i].namespace,
                     name |-> args.gateways[i].name]

\* of three Gateways the first and the last are of the class, the second is not
C14_Witness ==
    /\ op = "reconcileGatewaysIfClassMatches"
    /\ Len(args.gateways) = 3
    /\ MatchingIndexes = {1, 3}
    /\ Len(result) = 2
    /\ result[1] # result[2]

----------------------------------------------------------------------------
(* C15 *)

InClass(obj) == obj.type = "GatewayClass" /\ obj.controllerName = ControllerName

\* C15: isGatewayClassEventInClass returns true for a create, delete or
\* generic event iff its object is a GatewayClass of this controller, for an
\* update event iff the old or the new object is one; an event of another
\* type, or one whose objects are not GatewayClass, is logged and gives false.
C15_EventInClass ==
    op = "isGatewayClassEventInClass" =>
        LET e == args.watchEvent
        IN  /\ e.type \in {CreateEvent, DeleteEvent, GenericEvent} =>
                  /\ result.value <=> InClass(e.Object)
                  /\ e.Object.type # "GatewayClass" =>
                        ~result.value /\ result.log = <<InvalidObjectType>>
            /\ e.type = UpdateEvent =>
                  /\ result.value <=> (InClass(e.ObjectOld) \/ InClass(e.ObjectNew))
                  /\ (e.ObjectOld.type # "GatewayClass" /\ e.ObjectNew.type # "GatewayClass") =>
                        ~result.value /\ result.log = <<InvalidObjectType, InvalidObjectType>>
            /\ e.type \notin {CreateEvent, DeleteEvent, GenericEvent, UpdateEvent} =>
                  ~result.value /\ result.log = <<InvalidEventType>>

\* an update event whose old object is no GatewayClass, which is logged,
\* and whose new object is a GatewayClass of this controller
C15_Witness ==
    /\ op = "isGatewayClassEventInClass"
    /\ args.watchEvent.type = UpdateEvent
    /\ args.watchEvent.ObjectOld.type # "GatewayClass"
    /\ InClass(args.watchEvent.ObjectNew)
    /\ result.value = TRUE
    /\ result.log = <<InvalidObjectType>>

----------------------------------------------------------------------------
(* C16 *)

PreviousIndexes(name) ==
    {k \in DOMAIN gateway.status.listeners : gateway.status.listeners[k].name = name}

\* attachedRoutes of the previous status entry of the name, 0 without one
PreviousRoutes(name) ==
    IF PreviousIndexes(name) = {} THEN 0
    ELSE LET k == CHOOSE k \in PreviousIndexes(name) :
                      \A m \in PreviousIndexes(name) : m <= k
         IN gateway.status.listeners[k].attachedRoutes

\* C16: getListenerStatus returns one ListenerStatus per spec listener, in
\* spec order, named as the listener (equal names are not merged, no listener
\* gives no status), with the attachedRoutes of the previous status entry of
\* that name, or 0 when there is none.
C16_OneStatusPerListener ==
    Returned =>
        /\ Len(result) = Len(gateway.spec.listeners)
        /\ \A i \in DOMAIN gateway.spec.listeners :
              /\ result[i].name = SpecListener(i).name
              /\ result[i].attachedRoutes = PreviousRoutes(SpecListener(i).name)

\* of two listeners one keeps the attached routes of its previous status and
\* the other, which has none, starts at 0
C16_Witness ==
    /\ Returned
    /\ \E p \in NamedPairs :
          /\ PreviousIndexes(SpecListener(p[1]).name) # {}
          /\ PreviousIndexes(SpecListener(p[2]).name) = {}
          /\ result[p[1]].attachedRoutes = MaxRoutes
          /\ result[p[2]].attachedRoutes = 0
          /\ p[1] > p[2]

----------------------------------------------------------------------------
(* C17 *)

\* C17: every condition of every returned ListenerStatus has the Gateway's
\* current generation as its observedGeneration, whatever generation the
\* conditions of the previous status were computed against.
C17_ObservedGeneration ==
    Returned =>
        \A i \in DOMAIN result :
            \A k \in DOMAIN result[i].conditions :
                result[i].conditions[k].observedGeneration = gateway.generation

\* the previous status of a listener was computed against an older
\* generation, and the listener is returned conflicted, detached and not ready
C17_Witness ==
    /\ Returned
    /\ \E i \in DOMAIN result :
          /\ \E k \in PreviousIndexes(result[i].name) :
                \E c \in DOMAIN gateway.status.listeners[k].conditions :
                    gateway.status.listeners[k].conditions[c].observedGeneration
                        < gateway.generation
          /\ IsConflicted(result[i])
          /\ HasCondition(result[i].conditions, ListenerConditionDetached, ConditionTrue)
          /\ HasCondition(result[i].conditions, ListenerConditionReady, ConditionFalse)

----------------------------------------------------------------------------
(* C18 *)

\* pairs of HTTPS listeners that have their port to themselves, the first
\* with hostname a.com and the second with none
FallbackPairs ==
    {p \in ListenerPairs :
        /\ SpecListener(p[1]).protocol = HTTPSProtocolType
        /\ SpecListener(p[2]).protocol = HTTPSProtocolType
        /\ SpecListener(p[1]).port = SpecListener(p[2]).port
        /\ SpecListener(p[1]).hostname = <<"a.com">>
        /\ SpecListener(p[2]).hostname = <<>>
        /\ \A k \in DOMAIN gateway.spec.listeners :
              k \notin {p[1], p[2]} => SpecListener(k).port # SpecListener(p[1]).port}

HostnameConflicted(status) ==
    \E k \in DOMAIN status.conditions :
        status.conditions[k].reason = ListenerReasonHostnameConflict

\* C18: two HTTPS listeners on one port, one with hostname a.com and one
\* with no hostname, are both returned without a HostnameConflict condition,
\* in either spec order and whatever the previous status.
C18_UnsetHostnameIsFallback ==
    Returned =>
        \A p \in FallbackPairs :
            ~HostnameConflicted(result[p[1]]) /\ ~HostnameConflicted(result[p[2]])

\* the listener without a hostname held the port and the empty hostname in
\* the previous status, and the a.com listener, which comes first in the
\* spec, joins it without a conflict
C18_Witness ==
    /\ Returned
    /\ \E p \in FallbackPairs :
          /\ p[1] < p[2]
          /\ SpecListener(p[1]).name # SpecListener(p[2]).name
          /\ PreviouslyUnconflicted(SpecListener(p[2]).name)
          /\ ~PreviouslyUnconflicted(SpecListener(p[1]).name)
          /\ ~IsConflicted(result[p[1]])
          /\ ~IsConflicted(result[p[2]])

----------------------------------------------------------------------------
(* C19 *)

\* the listener is the only one of the Gateway on its port
AloneOnPort(i) ==
    \A k \in DOMAIN gateway.spec.listeners :
        k # i => SpecListener(k).port # SpecListener(i).port

\* C19: a listener that is the only listener of its Gateway on its port is
\* never returned with Conflicted=True, whatever its protocol, however many
\* results were stored as the previous status before, and also when its own
\* previous status carries Conflicted=False.
C19_SoleListenerNeverConflicted ==
    Returned =>
        \A i \in DOMAIN result : AloneOnPort(i) => ~IsConflicted(result[i])

----------------------------------------------------------------------------
(* C20 *)

\* C20: getListenerStatus has no effect but its return value: the Gateway
\* and the data-plane listens passed to a call are as they were passed, at
\* every point of the call and after it, and a call that runs interleaved
\* with a call for another Gateway returns what it returns when run alone.
C20_CallsAreIndependent ==
    \A c \in DOMAIN calls :
        /\ calls[c].gateway = before[c].gateway
        /\ calls[c].kongListens = before[c].kongListens
        /\ calls[c].pc = "done" =>
              calls[c].statuses = getListenerStatus(before[c].gateway, before[c].kongListens)

\* a call has returned its first listener without a conflict while the call
\* for another Gateway, half way through its second loop, holds the same
\* port for another protocol
C20_Witness ==
    /\ DOMAIN calls = CallIds
    /\ \E c, d \in CallIds :
          /\ c # d
          /\ calls[c].gateway # calls[d].gateway
          /\ calls[d].pc = "eval"
          /\ calls[d].i = 2
          /\ HasKey(calls[d].claims.portsToProtocol, 80)
          /\ calls[c].pc = "done"
          /\ calls[c].statuses # <<>>
          /\ calls[c].gateway.spec.listeners[1].port = 80
          /\ calls[c].gateway.spec.listeners[1].protocol
                # calls[d].claims.portsToProtocol[80]
          /\ ~IsConflicted(calls[c].statuses[1])

----------------------------------------------------------------------------
(* C21 *)

\* the positions of '/' in the string
Slashes(s) == {i \in DOMAIN s : s[i] = "/"}

\* namespace/name format: a namespace and a name, both of at least one
\* character, separated by the only '/' of the string
WellFormed(s) ==
    \E i \in Slashes(s) : Slashes(s) = {i} /\ 1 < i /\ i < Len(s)

\* C21: getRefFromPublishService returns an error and the empty reference
\* for every string that is not in namespace/name format, and for a string
\* in that format the part before the '/' as namespace and the part after
\* it as name, without an error.
C21_ErrorUnlessNamespaceName ==
    op = "getRefFromPublishService" =>
        LET s == args.publishService
        IN  /\ ~WellFormed(s) =>
                  result.err /\ result.ref = EmptyNamespacedName
            /\ WellFormed(s) =>
                  \E i \in Slashes(s) :
                      /\ ~result.err
                      /\ result.ref.namespace = SubSeq(s, 1, i - 1)
                      /\ result.ref.name = SubSeq(s, i + 1, Len(s))

====
